---- MODULE Spec2Model ----
(***************************************************************************)
(* Multiway equijoin plan (interactive/src/plan/sfw.rs): the planning      *)
(* functions, the construction of the delta-query dataflow by              *)
(* MultiwayJoin::render, the arrangement cache it drives, and the rounds   *)
(* of base changes the built dataflow answers.                             *)
(*                                                                         *)
(* An attribute reference is a pair <<attr, input>>, both 0-based as in    *)
(* the source; tuples are TLA+ sequences, so column a of a tuple is        *)
(* tuple[a + 1].                                                           *)
(***************************************************************************)
EXTENDS Integers, Sequences, FiniteSets, TLC

\* ---- bounds of the model ------------------------------------------------
MaxVal == 2           \* column values are 1..MaxVal
MaxUpdates == 2       \* base updates in one round
MaxRounds == 2        \* rounds of base changes
MaxRenders == 3       \* renders against one cache
MaxConstraints == 2   \* constraint lists given to the planning functions
MaxConstraintLen == 2 \* references in one such constraint list
MaxAttrs == 2         \* length of the accumulated attribute list given
MaxIndex == 2         \* source indices 0..MaxIndex given
MaxAttr == 1          \* attribute indices 0..MaxAttr given

\* ---- sequences as the Rust iterators use them ----------------------------
Contains(seq, x) == \E k \in 1..Len(seq) : seq[k] = x

\* Iterator::position with an equality test: 0-based, -1 for None.
Position(seq, x) ==
    IF Contains(seq, x)
    THEN (CHOOSE k \in 1..Len(seq) : seq[k] = x /\ \A m \in 1..(k-1) : seq[m] # x) - 1
    ELSE -1

\* current_attributes.iter().position(|x| constraint.contains(x)), -1 for None.
PositionIn(current, constraint) ==
    IF \E k \in 1..Len(current) : Contains(constraint, current[k])
    THEN (CHOOSE k \in 1..Len(current) :
             /\ Contains(constraint, current[k])
             /\ \A m \in 1..(k-1) : ~Contains(constraint, current[m])) - 1
    ELSE -1

RECURSIVE Flatten(_)
Flatten(lists) ==
    IF lists = <<>> THEN <<>> ELSE Head(lists) \o Flatten(Tail(lists))

\* Ord on (usize, usize): lexicographic.
RefLess(a, b) == a[1] < b[1] \/ (a[1] = b[1] /\ a[2] < b[2])

RECURSIVE InsertSorted(_, _)
InsertSorted(seq, x) ==
    IF seq = <<>> THEN <<x>>
    ELSE IF RefLess(x, Head(seq)) THEN <<x>> \o seq
    ELSE <<Head(seq)>> \o InsertSorted(Tail(seq), x)

\* the references left in the order in which they were collected
Unsorted(seq) == seq

RECURSIVE SortRefs(_)
SortRefs(seq) ==
    IF seq = <<>> THEN <<>>
    ELSE InsertSorted(SortRefs(SubSeq(seq, 1, Len(seq) - 1)), seq[Len(seq)])

\* Vec::dedup: drops an element equal to the one before it.
RECURSIVE Dedup(_)
Dedup(seq) ==
    IF Len(seq) <= 1 THEN seq
    ELSE IF seq[1] = seq[2] THEN Dedup(Tail(seq))
    ELSE <<seq[1]>> \o Dedup(Tail(seq))

RECURSIVE Filter(_, _)
\* the references of seq whose input is index
Filter(seq, index) ==
    IF seq = <<>> THEN <<>>
    ELSE IF Head(seq)[2] = index THEN <<Head(seq)>> \o Filter(Tail(seq), index)
    ELSE Filter(Tail(seq), index)

\* ---- render: relevant attributes (lines 69-74) ---------------------------
relevant_attributes(p) ==
    Dedup(SortRefs(p.results \o Flatten(p.equalities)))

\* ---- plan_join_order (lines 228-249) -------------------------------------
RECURSIVE PushUnsequenced(_, _)
\* the inner for loop: [result, active] after pushing the unsequenced
\* relations of constraint, in order
PushUnsequenced(st, constraint) ==
    IF constraint = <<>> THEN st
    ELSE LET index == Head(constraint)[2]
         IN  IF ~Contains(st.result, index)
             THEN PushUnsequenced([result |-> Append(st.result, index), active |-> TRUE],
                                  Tail(constraint))
             ELSE PushUnsequenced(st, Tail(constraint))

RECURSIVE ScanConstraints(_, _)
\* one pass of the for loop over constraints
ScanConstraints(st, constraints) ==
    IF constraints = <<>> THEN st
    ELSE LET constraint == Head(constraints)
             hit == \E k \in 1..Len(constraint) : Contains(st.result, constraint[k][2])
         IN  ScanConstraints(IF hit THEN PushUnsequenced(st, constraint) ELSE st,
                             Tail(constraints))

\* a single pass over the constraints, without the fixpoint
JoinOrderOnePass(result, constraints, loops) ==
    [result |-> ScanConstraints([result |-> result, active |-> FALSE], constraints).result,
     loops |-> loops + 1]

RECURSIVE JoinOrderConfirm(_, _, _)
\* a loop that makes one more pass after the first pass that sequenced nothing
JoinOrderConfirm(result, constraints, loops) ==
    LET st == ScanConstraints([result |-> result, active |-> FALSE], constraints)
    IN  IF st.active
        THEN JoinOrderConfirm(st.result, constraints, loops + 1)
        ELSE [result |-> st.result, loops |-> loops + 2]

RECURSIVE JoinOrderLoop(_, _, _)
\* the while loop; loops counts the passes made
JoinOrderLoop(result, constraints, loops) ==
    LET st == ScanConstraints([result |-> result, active |-> FALSE], constraints)
    IN  IF st.active
        THEN JoinOrderLoop(st.result, constraints, loops + 1)
        ELSE [result |-> st.result, loops |-> loops + 1]

plan_join_order(source, constraints) ==
    JoinOrderLoop(<<source>>, constraints, 0).result

\* ---- determine_keys_priors (lines 254-283) -------------------------------
RECURSIVE EmitKeysOnePrior(_, _, _, _)
\* the prior pushed when the constraint is met, not once per key
EmitKeysOnePrior(kp, constraint, relation, prior) ==
    IF constraint = <<>> THEN [kp EXCEPT !.priors = Append(kp.priors, prior)]
    ELSE IF Head(constraint)[2] = relation
         THEN EmitKeysOnePrior([kp EXCEPT !.keys = Append(kp.keys, Head(constraint)[1])],
                               Tail(constraint), relation, prior)
         ELSE EmitKeysOnePrior(kp, Tail(constraint), relation, prior)

RECURSIVE EmitKeys(_, _, _, _)
\* the inner for loop: every attribute of relation in constraint becomes a key
EmitKeys(kp, constraint, relation, prior) ==
    IF constraint = <<>> THEN kp
    ELSE IF Head(constraint)[2] = relation
         THEN EmitKeys([keys |-> Append(kp.keys, Head(constraint)[1]),
                        priors |-> Append(kp.priors, prior)],
                       Tail(constraint), relation, prior)
         ELSE EmitKeys(kp, Tail(constraint), relation, prior)

RECURSIVE KeysPriorsLoop(_, _, _, _)
KeysPriorsLoop(kp, relation, constraints, current_attributes) ==
    IF constraints = <<>> THEN kp
    ELSE LET prior == PositionIn(current_attributes, Head(constraints))
         IN  KeysPriorsLoop(
                 IF prior # -1 THEN EmitKeys(kp, Head(constraints), relation, prior)
                 ELSE kp,
                 relation, Tail(constraints), current_attributes)

determine_keys_priors(relation, constraints, current_attributes) ==
    KeysPriorsLoop([keys |-> <<>>, priors |-> <<>>], relation, constraints,
                   current_attributes)

\* ---- plans --------------------------------------------------------------
\* A source plan is a named input; Arity is the width of its tuples.
Arity(name) == IF name \in {"A", "B", "C"} THEN 1 ELSE 2

\* one source, no join
Single ==
    [sources |-> <<"R">>, equalities |-> <<>>, results |-> << <<1, 0>>, <<0, 0>> >>]

\* A(a), B(a), A.a = B.a, empty projection
PairCount ==
    [sources |-> <<"A", "B">>,
     equalities |-> << << <<0, 0>>, <<0, 1>> >> >>,
     results |-> <<>>]

\* R(a,b), S(b,c), R.b = S.b, results [R.a, S.c]
PairProj ==
    [sources |-> <<"R", "S">>,
     equalities |-> << << <<1, 0>>, <<0, 1>> >> >>,
     results |-> << <<0, 0>>, <<1, 1>> >>]

\* R(a,b), S(b,c), T(c,a), R.b = S.b, S.c = T.c, T.a = R.a, results [R.a, S.c]
Triangle ==
    [sources |-> <<"R", "S", "T">>,
     equalities |-> << << <<1, 0>>, <<0, 1>> >>,
                       << <<1, 1>>, <<0, 2>> >>,
                       << <<1, 2>>, <<0, 0>> >> >>,
     results |-> << <<0, 0>>, <<1, 1>> >>]

\* A(a), B(a), C(a), A.a = B.a = C.a in one constraint list, empty projection
Star ==
    [sources |-> <<"A", "B", "C">>,
     equalities |-> << << <<0, 0>>, <<0, 1>>, <<0, 2>> >> >>,
     results |-> <<>>]

\* A(a), B(a), C(a) with B.a in two constraint lists (not merged)
Chain ==
    [sources |-> <<"A", "B", "C">>,
     equalities |-> << << <<0, 0>>, <<0, 1>> >>,
                       << <<0, 1>>, <<0, 2>> >> >>,
     results |-> <<>>]

\* R joined with itself: both sources are the same plan
SelfJoin ==
    [sources |-> <<"R", "R">>,
     equalities |-> << << <<1, 0>>, <<0, 1>> >> >>,
     results |-> <<>>]

\* A(a), B(a) with no equality: B is reached from A by no constraint, results [B.a]
Unreached ==
    [sources |-> <<"A", "B">>, equalities |-> <<>>, results |-> << <<0, 1>> >>]

\* R(a,b) alone with R.a = R.b: a constraint list within one relation
Diagonal ==
    [sources |-> <<"R">>,
     equalities |-> << << <<0, 0>>, <<1, 0>> >> >>,
     results |-> << <<0, 0>> >>]

Plans == {Single, PairCount, PairProj, Triangle, Star, Chain, SelfJoin, Unreached,
          Diagonal}

NumSources(p) == Len(p.sources)
Names(p) == {p.sources[k] : k \in 1..Len(p.sources)}

\* ---- the arrangement cache (TraceManager) --------------------------------
None == -1

\* A plan the cache is asked about: a source, or a source under Plan::project.
SourcePlan(name) == [src |-> name, projected |-> FALSE, projection |-> <<>>]
project(source, projection) ==
    [src |-> source.src, projected |-> TRUE, projection |-> projection]

get_unkeyed(arr, plan) ==
    IF \E e \in arr.unkeyed : e.plan = plan
    THEN (CHOOSE e \in arr.unkeyed : e.plan = plan).trace
    ELSE None

set_unkeyed(arr, plan, trace) ==
    [arr EXCEPT !.unkeyed =
        {e \in arr.unkeyed : e.plan # plan} \cup {[plan |-> plan, trace |-> trace]}]

get_keyed(arr, plan, keys) ==
    IF \E e \in arr.keyed : e.plan = plan /\ e.keys = keys
    THEN (CHOOSE e \in arr.keyed : e.plan = plan /\ e.keys = keys).trace
    ELSE None

\* a render that renders and arranges every source anew
unkeyed_always_missing(arr, plan) == TRUE

\* line 93: arrangements.get_unkeyed(&plan).is_none()
unkeyed_missing(arr, plan) == get_unkeyed(arr, plan) = None

\* a render that builds and installs on every request
keyed_always_missing(arr, plan, keys) == TRUE

\* line 154: arrangements.get_keyed(&plan, &keys[..]).is_none()
keyed_missing(arr, plan, keys) == get_keyed(arr, plan, keys) = None

set_keyed(arr, plan, keys, trace) ==
    [arr EXCEPT !.keyed =
        {e \in arr.keyed : ~(e.plan = plan /\ e.keys = keys)}
            \cup {[plan |-> plan, keys |-> keys, trace |-> trace]}]

\* ---- state ----------------------------------------------------------------
VARIABLES
    plan,                \* the MultiwayJoin being rendered (self)
    pc,                  \* "branch", "join", "done", "failed", "panicked"
    error,               \* the panic message of a failed render
    index,               \* the source whose delta query is being built
    attributes,          \* the accumulated attribute list of that branch
    attributes_init,     \* its clone taken before the joins
    join_order,          \* the relations still to join in, in order
    join_plan,           \* the join steps recorded so far for that branch
    accumulated_changes, \* the delta branches built so far
    arrangements,        \* the TraceManager
    built,               \* every arrangement built, in order; a trace is its position
    requests,            \* every get_unkeyed / get_keyed answer handed to a branch
    renders,             \* renders started against this cache
    earlier,             \* the plans rendered before, and the cache the last left
    contents,            \* accumulated contents of every input
    output,              \* accumulated output of the rendered collection
    round,               \* rounds of base changes completed
    updates,             \* the base updates of the last round
    emitted,             \* what each delta branch emitted in the last round
    arrival,             \* the order in which the sources' batches of that round arrived
    call,                \* a call of a planning function: arguments and result
    driver               \* one worker of the benchmark driver (bin/arrange.rs)

vars == <<plan, pc, error, index, attributes, attributes_init, join_order, join_plan,
          accumulated_changes, arrangements, built, requests, renders, earlier,
          contents, output, round, updates, emitted, arrival, call, driver>>

renderVars == <<plan, pc, error, index, attributes, attributes_init, join_order,
                join_plan, accumulated_changes, arrangements, built, requests, renders,
                earlier>>
dataVars == <<contents, output, round, updates, emitted, arrival>>

Vals == 1..MaxVal
Rows(n) == [1..n -> Vals]
Outputs(p) == [1..Len(p.results) -> Vals]

NoCall == [fn |-> "none"]
NoDriver == [pc |-> "none"]

EmptyContents(p) == [name \in Names(p) |-> [row \in Rows(Arity(name)) |-> 0]]
EmptyOutput(p) == [o \in Outputs(p) |-> 0]

InitRender(p) ==
    /\ plan = p
    /\ pc = "branch"
    /\ error = ""
    /\ index = 0
    /\ attributes = <<>>
    /\ attributes_init = <<>>
    /\ join_order = <<>>
    /\ join_plan = <<>>
    /\ accumulated_changes = <<>>
    /\ arrangements = [unkeyed |-> {}, keyed |-> {}]
    /\ built = <<>>
    /\ requests = {}
    /\ renders = 1
    /\ earlier = [plans |-> {}, arrangements |-> [unkeyed |-> {}, keyed |-> {}],
                  built |-> <<>>]

InitData(p) ==
    /\ contents = EmptyContents(p)
    /\ output = EmptyOutput(p)
    /\ round = 0
    /\ updates = {}
    /\ emitted = {}
    /\ arrival = <<>>

Init ==
    \E p \in Plans :
        /\ InitRender(p)
        /\ InitData(p)
        /\ call = NoCall
        /\ driver = NoDriver

\* ---- render: one delta branch (lines 80-217) -----------------------------
\* lines 83-117: the seed's attributes, its unkeyed arrangement, the join order
StartBranch ==
    /\ pc = "branch"
    /\ index < NumSources(plan)
    /\ LET source == SourcePlan(plan.sources[index + 1])
           hit == ~unkeyed_missing(arrangements, source)
           arr == IF hit THEN arrangements
                  ELSE set_unkeyed(arrangements, source, Len(built) + 1)
       IN  /\ attributes' = Filter(relevant_attributes(plan), index)
           /\ attributes_init' = attributes'
           /\ built' = IF hit THEN built
                       ELSE Append(built, [kind |-> "unkeyed", plan |-> source])
           /\ arrangements' = arr
           /\ requests' = requests \cup
                 {[kind |-> "unkeyed", render |-> renders, index |-> index,
                   plan |-> source, keys |-> <<>>,
                   trace |-> get_unkeyed(arr, source)]}
           /\ join_order' = Tail(plan_join_order(index, plan.equalities))
    /\ join_plan' = <<>>
    /\ pc' = "join"
    /\ UNCHANGED <<plan, error, index, accumulated_changes, renders, earlier, call, driver>>
    /\ UNCHANGED dataVars

\* value columns that are all the relevant attributes of the relation, its
\* keys included
ValsWithKeys(relevant, join_idx, keys) == Filter(relevant, join_idx)

\* a join step that appends no value column of the relation it folds in
NoVals(relevant, join_idx, keys) == <<>>

RECURSIVE Vals_(_, _, _)
\* lines 131-136: the relevant attributes of join_idx that are not keys
Vals_(relevant, join_idx, keys) ==
    IF relevant = <<>> THEN <<>>
    ELSE IF Head(relevant)[2] = join_idx /\ ~Contains(keys, Head(relevant)[1])
         THEN <<Head(relevant)>> \o Vals_(Tail(relevant), join_idx, keys)
         ELSE Vals_(Tail(relevant), join_idx, keys)

\* lines 138-144
Projection(keys, vals) == keys \o [k \in 1..Len(vals) |-> vals[k][1]]

\* lines 120-176: one pass of the loop over join_order.skip(1)
JoinStep ==
    /\ pc = "join"
    /\ join_order # <<>>
    /\ LET join_idx == Head(join_order)
           kp == determine_keys_priors(join_idx, plan.equalities, attributes)
           vals == Vals_(relevant_attributes(plan), join_idx, kp.keys)
           projection == Projection(kp.keys, vals)
       IN  IF join_idx >= NumSources(plan)
           THEN \* self.sources[join_idx] is out of bounds
                /\ pc' = "failed"
                /\ error' = "index out of bounds"
                /\ UNCHANGED <<attributes, join_order, join_plan, arrangements,
                               built, requests>>
           ELSE LET keyed_plan == project(SourcePlan(plan.sources[join_idx + 1]), projection)
                    hit == ~keyed_missing(arrangements, keyed_plan, kp.keys)
                    arr == IF hit THEN arrangements
                           ELSE set_keyed(arrangements, keyed_plan, kp.keys,
                                          Len(built) + 1)
                    arrangement == get_keyed(arr, keyed_plan, kp.keys)
                IN  /\ built' = IF hit THEN built
                                ELSE Append(built, [kind |-> "keyed",
                                                    plan |-> keyed_plan,
                                                    keys |-> kp.keys])
                    /\ arrangements' = arr
                    /\ requests' = requests \cup
                          {[kind |-> "keyed", render |-> renders, index |-> index,
                            plan |-> keyed_plan, keys |-> kp.keys,
                            trace |-> arrangement]}
                    /\ join_plan' = Append(join_plan,
                          [join_idx |-> join_idx, keys |-> kp.keys,
                           priors |-> kp.priors, projection |-> projection,
                           arrangement |-> arrangement])
                    /\ attributes' = attributes \o vals
                    /\ join_order' = Tail(join_order)
                    /\ UNCHANGED <<pc, error>>
    /\ UNCHANGED <<plan, index, attributes_init, accumulated_changes, renders, earlier, call, driver>>
    /\ UNCHANGED dataVars

\* a projection that falls back to column 0 for a result it cannot resolve
extract_map_or_first(results, attrs) ==
    [k \in 1..Len(results) |->
        IF Contains(attrs, results[k]) THEN Position(attrs, results[k]) ELSE 0]

\* lines 205-210
extract_map(results, attrs) == [k \in 1..Len(results) |-> Position(attrs, results[k])]

\* lines 178-217: the branch's dataflow is built and pushed
BuildDataflow ==
    /\ pc = "join"
    /\ join_order = <<>>
    /\ LET em == extract_map(plan.results, attributes)
       IN  IF \E k \in 1..Len(em) : em[k] = -1
           THEN /\ pc' = "failed"
                /\ error' = "Output attribute not found!"
                /\ UNCHANGED <<index, accumulated_changes>>
           ELSE /\ accumulated_changes' = Append(accumulated_changes,
                      [index |-> index, attributes_init |-> attributes_init,
                       attributes |-> attributes, join_plan |-> join_plan,
                       extract_map |-> em])
                /\ index' = index + 1
                /\ pc' = "branch"
                /\ UNCHANGED error
    /\ UNCHANGED <<plan, attributes, attributes_init, join_order, join_plan,
                   arrangements, built, requests, renders, earlier, call, driver>>
    /\ UNCHANGED dataVars

\* line 220: the branches are concatenated into the output collection
Concatenate ==
    /\ pc = "branch"
    /\ index = NumSources(plan)
    /\ pc' = "done"
    /\ UNCHANGED <<plan, error, index, attributes, attributes_init, join_order,
                   join_plan, accumulated_changes, arrangements, built, requests,
                   renders, earlier, call, driver>>
    /\ UNCHANGED dataVars

\* a further render of a plan against the cache the earlier renders left
ReRender ==
    /\ pc = "done"
    /\ renders < MaxRenders
    /\ \E p \in Plans :
        /\ plan' = p
        /\ contents' = EmptyContents(p)
        /\ output' = EmptyOutput(p)
    /\ pc' = "branch"
    /\ index' = 0
    /\ attributes' = <<>>
    /\ attributes_init' = <<>>
    /\ join_order' = <<>>
    /\ join_plan' = <<>>
    /\ accumulated_changes' = <<>>
    /\ renders' = renders + 1
    /\ earlier' = [plans |-> earlier.plans \cup {plan}, arrangements |-> arrangements,
                   built |-> built]
    /\ UNCHANGED <<error, arrangements, built, requests, round, updates, emitted, arrival,
                   call, driver>>

\* ---- the built dataflow: one round of base changes -----------------------
RECURSIVE SumDiff(_)
\* the sum of the diffs of a set of updates
SumDiff(S) ==
    IF S = {} THEN 0
    ELSE LET e == CHOOSE x \in S : TRUE IN e.diff + SumDiff(S \ {e})

RECURSIVE SetsUpTo(_, _)
SetsUpTo(S, n) ==
    IF n = 0 THEN {{}}
    ELSE LET prev == SetsUpTo(S, n - 1)
         IN  prev \cup {s \cup {x} : s \in prev, x \in S}

\* a base update: a tuple inserted into (diff 1) or deleted from (diff -1) an input
AllUpdates(p) ==
    UNION {{[input |-> name, row |-> row, diff |-> d] :
               row \in Rows(Arity(name)), d \in {1, -1}} : name \in Names(p)}

\* arrival orders of the sources' batches of one round
Orders(n) == {ord \in [1..n -> 0..(n - 1)] :
                 \A a, b \in 1..n : ord[a] = ord[b] => a = b}
Arrival(ord, src) == CHOOSE k \in 1..Len(ord) : ord[k] = src
CanonicalOrder(n) == [k \in 1..n |-> k - 1]

\* a batch in which an inserted tuple stays even when the round also deletes it
ConsolidateInsertWins(p, u) ==
    [name \in Names(p) |-> [row \in Rows(Arity(name)) |->
        IF [input |-> name, row |-> row, diff |-> 1] \in u THEN 1
        ELSE SumDiff({x \in u : x.input = name /\ x.row = row})]]

\* arrange_by_self / arrange_by_key (lines 95, 159): the batch of a round
\* holds each tuple once, with the sum of its diffs
Consolidate(p, u) ==
    [name \in Names(p) |-> [row \in Rows(Arity(name)) |->
        SumDiff({x \in u : x.input = name /\ x.row = row})]]

Plus(p, c, d) ==
    [name \in Names(p) |-> [row \in Rows(Arity(name)) |-> c[name][row] + d[name][row]]]
Minus(p, c, d) ==
    [name \in Names(p) |-> [row \in Rows(Arity(name)) |-> c[name][row] - d[name][row]]]

\* lines 97-105: the seed's changes, restricted to its relevant attributes
Changes(p, b, delta) ==
    LET name == p.sources[b.index + 1]
    IN  {[tup |-> [k \in 1..Len(b.attributes_init) |-> row[b.attributes_init[k][1] + 1]],
          prov |-> (b.index :> row),
          diff |-> delta[name][row]] :
            row \in {r \in Rows(Arity(name)) : delta[name][r] # 0}}

\* Plan::project rendered: the columns of projection, in order
Projected(row, projection) == [k \in 1..Len(projection) |-> row[projection[k] + 1]]

\* line 158: the key under which the keyed arrangement files a projected tuple
KeyOf(tuple, keys) == [k \in 1..Len(keys) |-> tuple[keys[k] + 1]]

\* lines 169-171
key_selector(change, priors) == [k \in 1..Len(priors) |-> change[priors[k] + 1]]

\* a lookup that sees whatever of round t arrived before the branch's own batch
VisibleByArrival(join_idx, seed, ord, name, before, delta) ==
    [row \in Rows(Arity(name)) |->
        before[name][row]
          + (IF Arrival(ord, join_idx) < Arrival(ord, seed) THEN delta[name][row] ELSE 0)]

\* every arrangement entered at the earlier variant of the timestamp
EnterAtAlt(join_idx, seed) == "alt"

\* lines 194-201: the AltNeu variant at which branch seed enters the arrangement
\* of relation join_idx
EnterAt(join_idx, seed) == IF join_idx < seed THEN "alt" ELSE "neu"

\* lines 185, 194-201: the updates of relation join_idx that a change of branch
\* seed, which enters at alt(t), is matched against: those of earlier rounds,
\* and those of round t when the arrangement is entered at alt(t) (alt(t) is
\* not later than alt(t), neu(t) is)
Visible(join_idx, seed, ord, name, before, delta) ==
    [row \in Rows(Arity(name)) |->
        before[name][row]
          + (IF EnterAt(join_idx, seed) = "alt" THEN delta[name][row] ELSE 0)]

\* lines 196-202: propose, and the prefix extended by the matched value
Propose(changes, step, name, vis) ==
    {[tup |-> x[1].tup \o Projected(x[2], step.projection),
      prov |-> x[1].prov @@ (step.join_idx :> x[2]),
      diff |-> x[1].diff * vis[x[2]]] :
        x \in {y \in changes \X Rows(Arity(name)) :
                 /\ vis[y[2]] # 0
                 /\ KeyOf(Projected(y[2], step.projection), step.keys)
                      = key_selector(y[1].tup, step.priors)}}

RECURSIVE FoldJoins(_, _, _, _, _, _, _)
\* lines 187-203
FoldJoins(p, seed, changes, steps, ord, before, delta) ==
    IF steps = <<>> THEN changes
    ELSE LET step == Head(steps)
             name == p.sources[step.join_idx + 1]
             vis == Visible(step.join_idx, seed, ord, name, before, delta)
         IN  FoldJoins(p, seed, Propose(changes, step, name, vis), Tail(steps),
                       ord, before, delta)

\* lines 182-215: what one delta branch emits for a round
BranchEmitted(p, b, ord, before, delta) ==
    {[branch |-> b.index,
      prov |-> e.prov,
      out |-> [k \in 1..Len(b.extract_map) |-> e.tup[b.extract_map[k] + 1]],
      diff |-> e.diff] :
        e \in FoldJoins(p, b.index, Changes(p, b, delta), b.join_plan, ord, before, delta)}

\* line 220: concatenate
RoundEmitted(p, branches, ord, before, delta) ==
    UNION {BranchEmitted(p, branches[k], ord, before, delta) : k \in 1..Len(branches)}

Accumulate(p, out, em) ==
    [o \in Outputs(p) |-> out[o] + SumDiff({e \in em : e.out = o})]

\* line 158 indexes the projected tuple with the relation's attribute indices:
\* an update of an input panics when a keyed arrangement built over it has a key
\* beyond the width of its projection
Panics(u) ==
    \E x \in u : \E k \in 1..Len(built) :
        /\ built[k].kind = "keyed"
        /\ built[k].plan.src = x.input
        /\ \E m \in 1..Len(built[k].keys) :
              built[k].keys[m] >= Len(built[k].plan.projection)

\* one round: the updates of one outer timestamp reach the dataflow
Round ==
    /\ pc = "done"
    /\ round < MaxRounds
    /\ \E u \in SetsUpTo(AllUpdates(plan), MaxUpdates) \ {{}} :
       \E ord \in Orders(NumSources(plan)) :
          LET delta == Consolidate(plan, u)
              after == Plus(plan, contents, delta)
          IN  /\ \A name \in Names(plan) : \A row \in Rows(Arity(name)) :
                    after[name][row] >= 0
              /\ updates' = u
              /\ arrival' = ord
              /\ IF Panics(u)
                 THEN /\ pc' = "panicked"
                      /\ error' = "index out of bounds"
                      /\ UNCHANGED <<contents, output, round, emitted>>
                 ELSE /\ emitted' = RoundEmitted(plan, accumulated_changes, ord,
                                                 contents, delta)
                      /\ output' = Accumulate(plan, output, emitted')
                      /\ contents' = after
                      /\ round' = round + 1
                      /\ UNCHANGED <<pc, error>>
    /\ UNCHANGED <<plan, index, attributes, attributes_init, join_order, join_plan,
                   accumulated_changes, arrangements, built, requests, renders, earlier, call, driver>>

Next == StartBranch \/ JoinStep \/ BuildDataflow \/ Concatenate \/ Round

Spec == Init /\ [][Next]_vars

NextCache == StartBranch \/ JoinStep \/ BuildDataflow \/ Concatenate \/ ReRender

SpecCache == Init /\ [][NextCache]_vars

\* ---- calls of the planning functions on arbitrary arguments --------------
Refs == (0..MaxAttr) \X (0..MaxIndex)
SeqsUpTo(S, n) == UNION {[1..k -> S] : k \in 0..n}
ConstraintLists == SeqsUpTo(SeqsUpTo(Refs, MaxConstraintLen), MaxConstraints)

AttributeLists == SeqsUpTo(Refs, MaxAttrs)
ResultLists == SeqsUpTo(Refs, MaxAttrs)

InitPlanner ==
    /\ InitRender(Single)
    /\ InitData(Single)
    /\ driver = NoDriver
    /\ \/ \E source \in 0..MaxIndex, constraints \in ConstraintLists :
            call = [fn |-> "plan_join_order", relation |-> source,
                    constraints |-> constraints, current_attributes |-> <<>>,
                    returned |-> FALSE, ret |-> <<>>]
       \/ \E relation \in 0..MaxIndex, constraints \in ConstraintLists,
             current_attributes \in AttributeLists :
            call = [fn |-> "determine_keys_priors", relation |-> relation,
                    constraints |-> constraints,
                    current_attributes |-> current_attributes,
                    returned |-> FALSE, ret |-> <<>>]
       \/ \E results \in ResultLists, equalities \in ConstraintLists :
            call = [fn |-> "relevant_attributes", results |-> results,
                    equalities |-> equalities,
                    returned |-> FALSE, ret |-> <<>>]

\* lines 69-74 on the results and equalities of the call
CallRelevantAttributes ==
    /\ call.fn = "relevant_attributes"
    /\ ~call.returned
    /\ call' = [call EXCEPT !.returned = TRUE,
                            !.ret = relevant_attributes(call)]
    /\ UNCHANGED renderVars
    /\ UNCHANGED driver
    /\ UNCHANGED dataVars

CallPlanJoinOrder ==
    /\ call.fn = "plan_join_order"
    /\ ~call.returned
    /\ call' = [call EXCEPT !.returned = TRUE,
                            !.ret = JoinOrderLoop(<<call.relation>>, call.constraints, 0)]
    /\ UNCHANGED renderVars
    /\ UNCHANGED driver
    /\ UNCHANGED dataVars

CallDetermineKeysPriors ==
    /\ call.fn = "determine_keys_priors"
    /\ ~call.returned
    /\ call' = [call EXCEPT !.returned = TRUE,
                            !.ret = determine_keys_priors(call.relation, call.constraints,
                                                          call.current_attributes)]
    /\ UNCHANGED renderVars
    /\ UNCHANGED driver
    /\ UNCHANGED dataVars

NextPlanner == CallPlanJoinOrder \/ CallDetermineKeysPriors \/ CallRelevantAttributes

SpecPlanner == InitPlanner /\ [][NextPlanner]_vars

\* ---- render of arbitrary plans --------------------------------------------
\* every plan over two or three two-column sources whose equalities and
\* results are drawn from the bounded lists of references
AnyPlans ==
    {[sources |-> srcs, equalities |-> eqs, results |-> res] :
        srcs \in {<<"R", "S">>, <<"R", "S", "T">>},
        eqs \in ConstraintLists,
        res \in SeqsUpTo(Refs, 1)}

InitPlans ==
    \E p \in AnyPlans :
        /\ InitRender(p)
        /\ InitData(p)
        /\ call = NoCall
        /\ driver = NoDriver

NextRender == StartBranch \/ JoinStep \/ BuildDataflow \/ Concatenate

SpecPlans == InitPlans /\ [][NextRender]_vars

\* ---- the benchmark driver (experiments/src/bin/arrange.rs) -----------------
\* One worker of the driver, from the initial advance_to on.  Times are the
\* u64 nanoseconds of the source.  The reads of the timer are drawn from Clock
\* and the reads of the probe's frontier from what the worker's own input
\* allows; how long a loop goes on (the timer in closed-loop mode, ack_counter
\* in open-loop mode) is left open, up to MaxWaves waves.
MaxPeers == 2         \* workers
MaxWaves == 2         \* waves of the closed loop
MaxTime == 2000000000 \* request times above this are not told apart

NsPerSecond == 1000000000
MsGrain == 1048576
MinScale == 1024

ClosedRates == {1, 2, 3}
OpenRates == {1, 2, 4, 2000000002}
Clock == {0, 1048575, 1048576, 3145733, 600000000, 1073741824}

DriverStart(mode, duration, inputstrategy, rate, peers, index_) ==
    [pc |-> "start", error |-> "", mode |-> mode, duration |-> duration,
     inputstrategy |-> inputstrategy, rate |-> rate, peers |-> peers, index |-> index_,
     time |-> 0, asked |-> 0, previous |-> 0, wave |-> 0, round |-> 0,
     requests_per_sec |-> 0, ns_per_request |-> 0, request_counter |-> 0,
     inserted_ns |-> 0, elapsed_ns |-> 0, acknowledged_ns |-> 0, target_ns |-> 0]

InitDriver ==
    /\ InitRender(Single)
    /\ InitData(Single)
    /\ call = NoCall
    /\ \E mode \in {"closedloop", "openloop"}, duration \in {"seconds", "overwrite"},
          inputstrategy \in {"ms", "poweroftwo"}, peers \in 1..MaxPeers :
       \E index_ \in 0..(peers - 1),
          rate \in IF mode = "closedloop" THEN ClosedRates ELSE OpenRates :
            driver = DriverStart(mode, duration, inputstrategy, rate, peers, index_)

\* input.advance_to(t): the input refuses a time before its own
advance_to(d, t) ==
    IF t < d.time
    THEN [d EXCEPT !.pc = "panicked", !.error = "advance_to: time went back",
                   !.previous = d.asked, !.asked = t]
    ELSE [d EXCEPT !.time = t, !.previous = d.asked, !.asked = t]

\* lines 168-174: the records are loaded at time 0 and the input moves to 1
LoadData ==
    /\ driver.pc = "start"
    /\ driver' = [advance_to(driver, 1) EXCEPT !.pc = "loaded", !.acknowledged_ns = 1]
    /\ UNCHANGED <<renderVars, dataVars, call>>

\* lines 183-202: closed-loop mode is entered
StartClosedLoop ==
    /\ driver.pc = "loaded"
    /\ driver.rate > 0
    /\ driver.mode = "closedloop"
    /\ IF driver.duration # "seconds"
       THEN driver' = [driver EXCEPT !.pc = "panicked",
                                     !.error = "invalid duration for closedloop"]
       ELSE \E goes_on \in BOOLEAN :
               driver' = [driver EXCEPT !.wave = 1, !.round = 0,
                                        !.pc = IF goes_on THEN "closed_for"
                                               ELSE "finished"]
    /\ UNCHANGED <<renderVars, dataVars, call>>

\* lines 204-208: one round of a wave
ClosedRound ==
    /\ driver.pc = "closed_for"
    /\ driver.round < driver.rate
    /\ LET d == advance_to(driver,
                    (((driver.wave * driver.rate) + driver.round) * driver.peers
                        + driver.index))
       IN  driver' = IF d.pc = "panicked" THEN d
                     ELSE [d EXCEPT !.round = driver.round + 1]
    /\ UNCHANGED <<renderVars, dataVars, call>>

\* lines 209-224: the wave is closed, and the timer decides on another one
ClosedWave ==
    /\ driver.pc = "closed_for"
    /\ driver.round = driver.rate
    /\ LET wave == driver.wave + 1
           d == advance_to([driver EXCEPT !.wave = wave],
                           wave * driver.rate * driver.peers)
       IN  IF d.pc = "panicked" THEN driver' = d
           ELSE \E goes_on \in BOOLEAN :
                   /\ goes_on => wave <= MaxWaves
                   /\ driver' = [d EXCEPT !.round = 0,
                                          !.pc = IF goes_on THEN "closed_for"
                                                 ELSE "finished"]
    /\ UNCHANGED <<renderVars, dataVars, call>>

\* lines 234-246: open-loop mode is entered
StartOpenLoop ==
    /\ driver.pc = "loaded"
    /\ driver.rate > 0
    /\ driver.mode = "openloop"
    /\ LET requests_per_sec == driver.rate \div 2
       IN  IF requests_per_sec = 0
           THEN driver' = [driver EXCEPT !.pc = "panicked",
                                         !.error = "attempt to divide by zero"]
           ELSE driver' = [driver EXCEPT
                              !.requests_per_sec = requests_per_sec,
                              !.ns_per_request = NsPerSecond \div requests_per_sec,
                              !.request_counter = driver.peers + driver.index,
                              !.inserted_ns = 1,
                              !.pc = "open_head"]
    /\ UNCHANGED <<renderVars, dataVars, call>>

RECURSIVE BitLength(_)
\* size_of::<u64>() * 8 - delta.leading_zeros()
BitLength(delta) == IF delta = 0 THEN 0 ELSE 1 + BitLength(delta \div 2)

RECURSIVE ShiftLeftOne(_)
\* 1 << bits
ShiftLeftOne(bits) == IF bits = 0 THEN 1 ELSE 2 * ShiftLeftOne(bits - 1)

Max(a, b) == IF a >= b THEN a ELSE b

\* x & !(grain - 1) for a power of two grain
ClearLowBits(x, grain) == x - (x % grain)

\* lines 289-301
Target(inputstrategy, elapsed_ns, inserted_ns, acknowledged_ns) ==
    IF inputstrategy = "ms"
    THEN LET target_ns == ClearLowBits(elapsed_ns, MsGrain)
         IN  IF target_ns > inserted_ns + NsPerSecond
             THEN inserted_ns + NsPerSecond
             ELSE target_ns
    ELSE LET delta == inserted_ns - acknowledged_ns
             bits == BitLength(delta)
             scale == Max(ShiftLeftOne(bits) \div 4, MinScale)
         IN  ClearLowBits(elapsed_ns, scale)

\* (request_counter * ns_per_request) as u64; every read of Clock is below
\* MaxTime, so a product above MaxTime compares with a target as MaxTime + 1 does
RequestTime(request_counter, ns_per_request) ==
    IF ns_per_request > 0 /\ request_counter > MaxTime \div ns_per_request
    THEN MaxTime + 1
    ELSE request_counter * ns_per_request

\* lines 247-303, 316: the head of the open loop reads the timer and the
\* probe's frontier and picks the target; with nothing to insert it steps the
\* worker and comes back
OpenMeasure ==
    /\ driver.pc = "open_head"
    /\ \/ driver' = [driver EXCEPT !.pc = "finished"]
       \/ \E elapsed_ns \in Clock,
             acknowledged_ns \in {driver.acknowledged_ns, driver.inserted_ns} :
            /\ elapsed_ns >= driver.elapsed_ns
            /\ LET target_ns == Target(driver.inputstrategy, elapsed_ns,
                                       driver.inserted_ns, acknowledged_ns)
               IN  driver' = [driver EXCEPT
                                 !.elapsed_ns = elapsed_ns,
                                 !.acknowledged_ns = acknowledged_ns,
                                 !.target_ns = target_ns,
                                 !.pc = IF driver.inserted_ns < target_ns
                                        THEN "open_requests" ELSE "open_head"]
    /\ UNCHANGED <<renderVars, dataVars, call>>

\* lines 305-310: one request before the target
OpenRequest ==
    /\ driver.pc = "open_requests"
    /\ RequestTime(driver.request_counter, driver.ns_per_request) < driver.target_ns
    /\ LET d == advance_to(driver,
                    RequestTime(driver.request_counter, driver.ns_per_request))
       IN  driver' = IF d.pc = "panicked" THEN d
                     ELSE [d EXCEPT !.request_counter =
                                        driver.request_counter + driver.peers]
    /\ UNCHANGED <<renderVars, dataVars, call>>

\* lines 311-316: the input moves to the target
OpenAdvance ==
    /\ driver.pc = "open_requests"
    /\ ~(RequestTime(driver.request_counter, driver.ns_per_request) < driver.target_ns)
    /\ LET d == advance_to(driver, driver.target_ns)
       IN  driver' = IF d.pc = "panicked" THEN d
                     ELSE [d EXCEPT !.inserted_ns = driver.target_ns,
                                    !.pc = "open_head"]
    /\ UNCHANGED <<renderVars, dataVars, call>>

NextDriver ==
    \/ LoadData
    \/ StartClosedLoop
    \/ ClosedRound
    \/ ClosedWave
    \/ StartOpenLoop
    \/ OpenMeasure
    \/ OpenRequest
    \/ OpenAdvance

SpecDriver == InitDriver /\ [][NextDriver]_vars

\* ==== the from-scratch join, for comparison ================================
SourceIndices(p) == 0..(NumSources(p) - 1)
AllRows == UNION {Rows(n) : n \in 1..2}

\* one row per source
Combinations(p) ==
    {rho \in [SourceIndices(p) -> AllRows] :
        \A i \in SourceIndices(p) : DOMAIN rho[i] = 1..Arity(p.sources[i + 1])}

ValueOf(rho, ref) == rho[ref[2]][ref[1] + 1]

SatisfiesEqualities(p, rho) ==
    \A c \in 1..Len(p.equalities) :
        \A a, b \in 1..Len(p.equalities[c]) :
            ValueOf(rho, p.equalities[c][a]) = ValueOf(rho, p.equalities[c][b])

ProjectResults(p, rho) == [k \in 1..Len(p.results) |-> ValueOf(rho, p.results[k])]

RECURSIVE Multiplicity(_, _, _, _)
\* the product over the sources i..N-1 of the multiplicity of rho[i]
Multiplicity(p, c, rho, i) ==
    IF i >= NumSources(p) THEN 1
    ELSE c[p.sources[i + 1]][rho[i]] * Multiplicity(p, c, rho, i + 1)

RECURSIVE SumMultiplicity(_, _, _)
SumMultiplicity(p, c, S) ==
    IF S = {} THEN 0
    ELSE LET rho == CHOOSE x \in S : TRUE
         IN  Multiplicity(p, c, rho, 0) + SumMultiplicity(p, c, S \ {rho})

\* the projected, equality-filtered Cartesian product of the sources' contents
GroundTruth(p, c) ==
    [o \in Outputs(p) |->
        SumMultiplicity(p, c, {rho \in Combinations(p) :
                                  /\ SatisfiesEqualities(p, rho)
                                  /\ ProjectResults(p, rho) = o
                                  /\ Multiplicity(p, c, rho, 0) # 0})]

AllRefs(p) == {p.results[k] : k \in 1..Len(p.results)}
                 \cup {Flatten(p.equalities)[k] : k \in 1..Len(Flatten(p.equalities))}

RECURSIVE Reach(_, _)
\* the sources linked to a source of S by a chain of constraint lists
Reach(S, constraints) ==
    LET more == UNION {IF \E b \in 1..Len(constraints[c]) : constraints[c][b][2] \in S
                       THEN {constraints[c][a][2] : a \in 1..Len(constraints[c])}
                       ELSE {} : c \in 1..Len(constraints)}
    IN  IF more \subseteq S THEN S ELSE Reach(S \cup more, constraints)

\* the data-model invariants of a plan: references in range, constraint lists
\* that are merged equivalence classes, an equality graph that connects the sources
WellFormed(p) ==
    /\ \A ref \in AllRefs(p) :
          /\ ref[2] \in SourceIndices(p)
          /\ ref[1] < Arity(p.sources[ref[2] + 1])
    /\ \A c, d \in 1..Len(p.equalities) :
          c # d => \A a \in 1..Len(p.equalities[c]) :
                      ~Contains(p.equalities[d], p.equalities[c][a])
    /\ \A i \in SourceIndices(p) : Reach({i}, p.equalities) = SourceIndices(p)

LastDelta == Consolidate(plan, updates)
Before == Minus(plan, contents, LastDelta)
Touched == {i \in SourceIndices(plan) :
               \E row \in Rows(Arity(plan.sources[i + 1])) :
                   LastDelta[plan.sources[i + 1]][row] # 0}
AllSteps ==
    {join_plan[k] : k \in 1..Len(join_plan)}
      \cup UNION {{accumulated_changes[b].join_plan[k] :
                       k \in 1..Len(accumulated_changes[b].join_plan)} :
                    b \in 1..Len(accumulated_changes)}

\* ==== claims ================================================================

\* C1: for a plan that satisfies the data-model invariants, after every round the
\* accumulated output of render equals, with multiplicities, the projection onto
\* results of the equality-filtered Cartesian product of the sources' contents.
C1_OutputEqualsGroundTruth ==
    (pc = "done" /\ WellFormed(plan)) => output = GroundTruth(plan, contents)

\* C2: when exactly two sources i < j receive, in one round, new tuples that match
\* each other (and the other sources' contents) under the equalities, exactly one
\* of branch i and branch j emits the combined row, and the round's emissions for
\* it sum to the product of the multiplicities.
C2_ExactlyOnce ==
    (pc = "done" /\ round > 0 /\ WellFormed(plan)) =>
        \A i, j \in SourceIndices(plan) :
            (i < j /\ Touched = {i, j} /\ plan.sources[i + 1] # plan.sources[j + 1]) =>
                \A rho \in Combinations(plan) :
                    ( /\ SatisfiesEqualities(plan, rho)
                      /\ LastDelta[plan.sources[i + 1]][rho[i]] # 0
                      /\ LastDelta[plan.sources[j + 1]][rho[j]] # 0
                      /\ Before[plan.sources[i + 1]][rho[i]] = 0
                      /\ Before[plan.sources[j + 1]][rho[j]] = 0
                      /\ Multiplicity(plan, contents, rho, 0) # 0 ) =>
                        /\ Cardinality({b \in {i, j} :
                              \E e \in emitted : e.branch = b /\ e.prov = rho}) = 1
                        /\ SumDiff({e \in emitted : e.prov = rho})
                              = Multiplicity(plan, contents, rho, 0)

ScenarioContents ==
    [name \in {"R", "S", "T"} |-> [row \in Rows(2) |->
        IF \/ name = "R" /\ row = <<1, 2>>
           \/ name = "S" /\ row = <<2, 3>>
           \/ name = "T" /\ row = <<3, 1>>
        THEN 1 ELSE 0]]

\* C3: for the triangle plan render completes without a planning failure;
\* with R=(1,2), S=(2,3), T=(3,1) inserted in one round the output holds (1,3)
\* once; with any one of the three deleted in a later round it holds it no more.
C3_TriangleScenario ==
    plan = Triangle =>
        /\ pc # "failed"
        /\ (pc = "done" /\ round = 1 /\ contents = ScenarioContents) =>
              output = [o \in Outputs(plan) |-> IF o = <<1, 3>> THEN 1 ELSE 0]
        /\ (pc = "done" /\ round = 2 /\ Before = ScenarioContents
              /\ \E x \in updates : updates = {x} /\ x.diff = -1
                                      /\ ScenarioContents[x.input][x.row] = 1) =>
              output[<<1, 3>>] = 0

Negated(x) == [x EXCEPT !.diff = -x.diff]
NetOutput(p, em) == Accumulate(p, EmptyOutput(p), em)

ToSet(seq) == {seq[k] : k \in 1..Len(seq)}

\* C6: plan_join_order returns a sequence that starts with the seed, holds no
\* source twice, and holds exactly the sources reachable from the seed through
\* the constraint lists.
C6_JoinOrder ==
    (call.fn = "plan_join_order" /\ call.returned) =>
        LET result == call.ret.result
        IN  /\ Len(result) >= 1
            /\ result[1] = call.relation
            /\ \A a, b \in 1..Len(result) : result[a] = result[b] => a = b
            /\ ToSet(result) = Reach({call.relation}, call.constraints)

\* a call that sequenced three sources and needed a second pass to do so
C6_Witness ==
    /\ call.fn = "plan_join_order"
    /\ call.returned
    /\ Len(call.ret.result) = 3
    /\ call.ret.loops = 3

\* C7: determine_keys_priors returns keys and priors of equal length; every key
\* is an attribute some constraint list gives to the relation, and every prior
\* is a position of the accumulated attribute list whose attribute lies in the
\* same constraint list as the key.
C7_KeysPriors ==
    (call.fn = "determine_keys_priors" /\ call.returned) =>
        LET keys == call.ret.keys
            priors == call.ret.priors
        IN  /\ Len(keys) = Len(priors)
            /\ \A k \in 1..Len(keys) :
                  /\ priors[k] \in 0..(Len(call.current_attributes) - 1)
                  /\ \E c \in 1..Len(call.constraints) :
                        /\ Contains(call.constraints[c], <<keys[k], call.relation>>)
                        /\ Contains(call.constraints[c],
                                    call.current_attributes[priors[k] + 1])

\* a call that returned two keys with different priors
C7_Witness ==
    /\ call.fn = "determine_keys_priors"
    /\ call.returned
    /\ Len(call.ret.keys) = 2
    /\ call.ret.priors[1] # call.ret.priors[2]
    /\ call.ret.keys[1] # call.ret.keys[2]

\* C8: across the branches of one render and across renders on one cache, two
\* requests obtain the same arrangement exactly when they name structurally
\* equal plans and keys; every arrangement is built once, and the cache still
\* answers every earlier request with the arrangement it gave then.
C8_CacheSharing ==
    /\ \A a, b \in requests :
          a.kind = b.kind =>
              ((a.plan = b.plan /\ a.keys = b.keys) <=> a.trace = b.trace)
    /\ \A a \in requests :
          /\ a.trace # None
          /\ a.kind = "unkeyed" => get_unkeyed(arrangements, a.plan) = a.trace
          /\ a.kind = "keyed" => get_keyed(arrangements, a.plan, a.keys) = a.trace
    /\ \A m, n \in 1..Len(built) : built[m] = built[n] => m = n

\* a second render was served a keyed arrangement the first had built, two
\* sources of one render shared an unkeyed arrangement, and one projected plan
\* was requested under two key lists
C8_Witness ==
    /\ \E a, b \in requests :
          /\ a.kind = "keyed" /\ b.kind = "keyed"
          /\ a.render # b.render
          /\ a.plan = b.plan /\ a.keys = b.keys
    /\ \E a, b \in requests :
          /\ a.kind = "unkeyed" /\ b.kind = "unkeyed"
          /\ a.render = b.render /\ a.index # b.index
          /\ a.plan = b.plan
    /\ \E a, b \in requests :
          /\ a.kind = "keyed" /\ b.kind = "keyed"
          /\ a.plan = b.plan /\ a.keys # b.keys

\* C9: every tuple a delta branch emits has len(results) columns, and its k-th
\* column is the value of results[k] in the joined row.
C9_OutputColumns ==
    \A e \in emitted :
        /\ Len(e.out) = Len(plan.results)
        /\ \A k \in 1..Len(plan.results) :
              /\ plan.results[k][2] \in DOMAIN e.prov
              /\ e.out[k] = ValueOf(e.prov, plan.results[k])

\* C10: no join step with an empty key list is ever recorded, in the branch
\* under construction or in a built one: a relation that yields zero keys stops
\* the construction.
C10_ZeroKeysRejected ==
    \A step \in AllSteps : step.keys # <<>>

\* some attribute reference lies in two different constraint lists of p
SharesReference(p) ==
    \E c, d \in 1..Len(p.equalities) :
        c # d /\ \E a \in 1..Len(p.equalities[c]) :
                    Contains(p.equalities[d], p.equalities[c][a])

\* C11: a plan in which one attribute reference lies in two different constraint
\* lists is rejected: render never gets to produce its output collection, and
\* no delta branch of it is ever built.
C11_SharedReferenceRejected ==
    SharesReference(plan) => (pc # "done" /\ accumulated_changes = <<>>)

\* the branch under construction has folded in all its relations and some
\* reference of results is not in its accumulated attributes
Unresolved ==
    /\ pc = "join"
    /\ join_order = <<>>
    /\ \E k \in 1..Len(plan.results) : ~Contains(attributes, plan.results[k])

\* C12: when a delta branch comes to compute its projection and some reference
\* of results is not in its accumulated attributes, render fails there with
\* "Output attribute not found!", pushes no branch and never returns an output
\* collection; every branch that was pushed resolves every result.
C12_OutputAttributeNotFound ==
    [][ /\ Unresolved =>
            /\ pc' = "failed"
            /\ error' = "Output attribute not found!"
            /\ accumulated_changes' = accumulated_changes
        /\ (pc = "failed" /\ error = "Output attribute not found!") => pc' = "failed"
        /\ \A b \in 1..Len(accumulated_changes') :
              \A k \in 1..Len(plan.results) :
                  Contains(accumulated_changes'[b].attributes, plan.results[k]) ]_vars

\* render failed with that error in a branch whose join order does not reach
\* the source of one of the results
C12_Witness ==
    /\ pc = "failed"
    /\ error = "Output attribute not found!"
    /\ \E k \in 1..Len(plan.results) :
          ~Contains(plan_join_order(index, plan.equalities), plan.results[k][2])

RECURSIVE Product(_, _)
\* the product of f over the set S
Product(f, S) ==
    IF S = {} THEN 1
    ELSE LET j == CHOOSE x \in S : TRUE IN f[j] * Product(f, S \ {j})

\* C13: a row that branch i emits for a round combines a change of source i of
\* that round with, for every relation j it joined, a row of j counted with the
\* updates of earlier rounds, and with those of the same round exactly when
\* j < i; so of two sources changed in one round only the branch of the larger
\* index combines the two changes, whatever the arrival order.
C13_AltNeuByIndex ==
    (pc = "done" /\ round > 0) =>
        \A e \in emitted :
            LET i == e.branch
                seen == [j \in DOMAIN e.prov |->
                            LET name == plan.sources[j + 1]
                            IN  IF j = i THEN LastDelta[name][e.prov[j]]
                                ELSE Before[name][e.prov[j]]
                                       + (IF j < i THEN LastDelta[name][e.prov[j]] ELSE 0)]
            IN  /\ seen[i] # 0
                /\ e.diff = Product(seen, DOMAIN e.prov)
                /\ \A j \in DOMAIN e.prov :
                      j > i => Before[plan.sources[j + 1]][e.prov[j]] # 0

\* two sources got a new row each in one round, the batches arrived with the
\* larger index first, and the branch of the larger index combined the two
C13_Witness ==
    /\ pc = "done"
    /\ round > 0
    /\ \E e \in emitted : \E j \in DOMAIN e.prov :
          /\ j < e.branch
          /\ Before[plan.sources[j + 1]][e.prov[j]] = 0
          /\ LastDelta[plan.sources[j + 1]][e.prov[j]] > 0
          /\ e.diff > 0
          /\ Arrival(arrival, e.branch) < Arrival(arrival, j)

RECURSIVE ValsFolded(_, _)
\* the number of vals the first n join steps of a branch added to its attributes
ValsFolded(steps, n) ==
    IF n = 0 THEN 0
    ELSE ValsFolded(steps, n - 1) + Len(steps[n].projection) - Len(steps[n].keys)

\* the attribute list of built branch b after its first n join steps
AttributesAfter(b, n) ==
    SubSeq(b.attributes, 1, Len(b.attributes_init) + ValsFolded(b.join_plan, n))

\* the running tuples of built branch b after its first n join steps, last round
RunningTuples(b, n) ==
    FoldJoins(plan, b.index, Changes(plan, b, LastDelta), SubSeq(b.join_plan, 1, n),
              arrival, Before, LastDelta)

\* C14: in every delta branch, before the first join step and after each one,
\* the running tuple is as long as the branch's attribute list at that point
\* and holds at every position the value of the attribute reference listed
\* there; the list grows by the vals of the relation folded in.
C14_TupleMatchesAttributes ==
    (pc = "done" /\ round > 0) =>
        \A k \in 1..Len(accumulated_changes) :
            LET b == accumulated_changes[k]
            IN  \A n \in 0..Len(b.join_plan) :
                    /\ Len(AttributesAfter(b, n)) <= Len(b.attributes)
                    /\ n = Len(b.join_plan) => AttributesAfter(b, n) = b.attributes
                    /\ \A e \in RunningTuples(b, n) :
                          /\ Len(e.tup) = Len(AttributesAfter(b, n))
                          /\ \A q \in 1..Len(e.tup) :
                                e.tup[q] = ValueOf(e.prov, AttributesAfter(b, n)[q])

\* the values of a row of relation j at j's attribute indices keys, in order
AttributeKey(row, keys) == [m \in 1..Len(keys) |-> row[keys[m] + 1]]

\* C15: every keyed arrangement built for a join step holds the relation's rows
\* restricted to the columns keys ++ vals, and files each row under that row's
\* values at the relation's attribute indices keys, in order.
C15_KeyedByAttributeValues ==
    \A k \in 1..Len(built) :
        built[k].kind = "keyed" =>
            LET keys == built[k].keys
                projection == built[k].plan.projection
            IN  /\ SubSeq(projection, 1, Len(keys)) = keys
                /\ \A m \in 1..Len(keys) : keys[m] < Len(projection)
                /\ \A row \in Rows(Arity(built[k].plan.src)) :
                      KeyOf(Projected(row, projection), keys) = AttributeKey(row, keys)

\* C16: when no attribute reference lies in two constraint lists, every relation
\* that the join order of a branch places after the seed gets at least one key
\* from determine_keys_priors on the attributes accumulated when it is reached.
C16_EveryJoinHasKey ==
    (pc = "join" /\ join_order # <<>> /\ ~SharesReference(plan)) =>
        determine_keys_priors(Head(join_order), plan.equalities, attributes).keys # <<>>

\* a branch reached its second joined relation, whose only link is to a value
\* column of the first joined relation, and a key was found for it
C16_Witness ==
    /\ pc = "join"
    /\ join_order # <<>>
    /\ Len(join_plan) = 1
    /\ ~SharesReference(plan)
    /\ LET kp == determine_keys_priors(Head(join_order), plan.equalities, attributes)
       IN  /\ kp.keys # <<>>
           /\ \A m \in 1..Len(kp.priors) : kp.priors[m] >= Len(attributes_init)

Reverse(seq) == [k \in 1..Len(seq) |-> seq[Len(seq) + 1 - k]]

\* C17: relevant_attributes holds each reference of results and of the
\* constraint lists exactly once and no other, in ascending order, and so is
\* the same when results or the constraint lists are given in another order.
C17_RelevantAttributes ==
    (call.fn = "relevant_attributes" /\ call.returned) =>
        /\ ToSet(call.ret) = AllRefs(call)
        /\ \A a, b \in 1..Len(call.ret) : a < b => RefLess(call.ret[a], call.ret[b])
        /\ \A res \in {call.results, Reverse(call.results)} :
           \A eqs \in {call.equalities, Reverse(call.equalities)} :
              relevant_attributes([results |-> res, equalities |-> eqs]) = call.ret

\* a call whose references were given out of order, one of them both in
\* results and in a constraint list, and that returned three references
C17_Witness ==
    /\ call.fn = "relevant_attributes"
    /\ call.returned
    /\ Len(call.ret) = 3
    /\ Len(call.results) = 2
    /\ RefLess(call.results[2], call.results[1])
    /\ \E k \in 1..Len(call.results) :
          Contains(Flatten(call.equalities), call.results[k])
    /\ call.results \o Flatten(call.equalities) # call.ret

\* C18: for a plan that satisfies the data-model invariants render builds all
\* its delta branches without a planning failure: in every branch each
\* reference of results, a join key of that branch included, has a position
\* in the accumulated attributes when the projection is computed.
C18_WellFormedPlanRenders ==
    WellFormed(plan) =>
        /\ pc # "failed"
        /\ (pc = "join" /\ join_order = <<>>) =>
              \A k \in 1..Len(plan.results) : Contains(attributes, plan.results[k])

\* C19: in every tuple a delta branch passes to its result projection, the
\* references of one constraint list that belong to sources joined in that
\* branch have equal values, two attributes of the seed or of one joined
\* relation included.
C19_EqualitiesHold ==
    (pc = "done" /\ round > 0) =>
        \A k \in 1..Len(accumulated_changes) :
            LET b == accumulated_changes[k]
            IN  \A e \in RunningTuples(b, Len(b.join_plan)) :
                    \A c \in 1..Len(plan.equalities) :
                        \A x, y \in 1..Len(plan.equalities[c]) :
                            ( /\ plan.equalities[c][x][2] \in DOMAIN e.prov
                              /\ plan.equalities[c][y][2] \in DOMAIN e.prov ) =>
                                ValueOf(e.prov, plan.equalities[c][x])
                                  = ValueOf(e.prov, plan.equalities[c][y])

\* the source indices named by the constraint lists
ConstraintIndices(constraints) ==
    {Flatten(constraints)[k][2] : k \in 1..Len(Flatten(constraints))}

\* C20: plan_join_order returns for every seed and every constraint lists, a
\* seed named by no constraint included, after at most (number of distinct
\* source indices in the constraints) + 1 passes of its outer loop.
C20_JoinOrderTerminates ==
    (call.fn = "plan_join_order" /\ call.returned) =>
        /\ call.ret.loops >= 1
        /\ call.ret.loops <= Cardinality(ConstraintIndices(call.constraints)) + 1
        /\ (call.relation \notin ConstraintIndices(call.constraints)) =>
              (call.ret.loops = 1 /\ call.ret.result = <<call.relation>>)

\* a call whose every pass but the last sequenced one relation: as many passes
\* as the constraints name sources
C20_Witness ==
    /\ call.fn = "plan_join_order"
    /\ call.returned
    /\ Cardinality(ConstraintIndices(call.constraints)) = 3
    /\ call.ret.loops = Cardinality(ConstraintIndices(call.constraints))

\* C21: a render of a plan that an earlier render on the same cache already
\* completed builds and installs no arrangement: each of its get_unkeyed and
\* get_keyed requests is answered with an arrangement the cache held when it
\* started, and the cache stays as it was then.
C21_SecondRenderHits ==
    plan \in earlier.plans =>
        /\ built = earlier.built
        /\ arrangements = earlier.arrangements
        /\ \A a \in requests :
              a.render = renders => a.trace \in 1..Len(earlier.built)

\* a second render of a plan with a join completed on the cache of its first
C21_Witness ==
    /\ pc = "done"
    /\ renders = 2
    /\ plan \in earlier.plans
    /\ \E a \in requests : a.render = renders /\ a.kind = "keyed"
    /\ \E a \in requests : a.render = renders /\ a.kind = "unkeyed"

\* some constraint list of p holds one reference twice
RepeatsReference(p) ==
    \E c \in 1..Len(p.equalities) :
        \E a, b \in 1..Len(p.equalities[c]) :
            a # b /\ p.equalities[c][a] = p.equalities[c][b]

\* the attribute indices of relation j among the relevant attributes of p
RelevantColumns(p, j) ==
    {Filter(relevant_attributes(p), j)[k][1] :
        k \in 1..Len(Filter(relevant_attributes(p), j))}

\* C22: when no attribute reference lies in two constraint lists and no list
\* repeats a reference, the projection of every join step starts with the keys,
\* names no column of the relation twice, has its value columns disjoint from
\* the keys, and names exactly the relevant attributes of the relation.
C22_ProjectionColumns ==
    (~SharesReference(plan) /\ ~RepeatsReference(plan)) =>
        \A step \in AllSteps :
            /\ SubSeq(step.projection, 1, Len(step.keys)) = step.keys
            /\ \A a, b \in 1..Len(step.projection) :
                  step.projection[a] = step.projection[b] => a = b
            /\ ToSet(step.projection) = RelevantColumns(plan, step.join_idx)

\* a render of three branches in which some join step has a key and a value
\* column and another has a key alone
C22_Witness ==
    /\ ~SharesReference(plan)
    /\ ~RepeatsReference(plan)
    /\ pc = "done"
    /\ Len(accumulated_changes) = 3
    /\ \E step \in AllSteps : Len(step.keys) = 1 /\ Len(step.projection) = 2
    /\ \E step \in AllSteps : Len(step.keys) = 1 /\ Len(step.projection) = 1

\* C23: for every worker index < peers, every rate >= 1 in closed-loop mode and
\* every rate >= 2 in open-loop mode, each time passed to input.advance_to is at
\* least 1 and at least the time passed before it, so the input is never asked
\* to move back.
C23_AdvanceNeverBack ==
    ( /\ driver.pc \notin {"none", "start"}
      /\ driver.index < driver.peers
      /\ \/ driver.mode = "closedloop" /\ driver.rate >= 1
         \/ driver.mode = "openloop" /\ driver.rate >= 2 ) =>
        /\ driver.asked >= 1
        /\ driver.asked >= driver.previous
        /\ driver.asked = driver.time

====
